---- MODULE Spec2Model ----
(***************************************************************************)
(* Hierarchical state machines of bevy-state-v3: state records, the        *)
(* per-type update system, the transition (notification) systems and the   *)
(* schedules that order them.                                              *)
(*                                                                         *)
(* The repository holds two crates with the same architecture:             *)
(*   bevy_state     src/bevy_state/src/{state,data,transitions}.rs with    *)
(*                  scheduling.rs / plugin.rs (one StateTransition         *)
(*                  schedule holding updates, exits and enters);           *)
(*   bevy_state_v3  src/bevy_state_v3/src/{state,components,transitions,   *)
(*                  system_set,app}.rs (StateUpdates and StateTransitions  *)
(*                  schedules).                                            *)
(* The variable `crate` fixes which of the two a behaviour runs.           *)
(***************************************************************************)
EXTENDS Integers, Sequences, FiniteSets, TLC

\* ------------------------------------------------------------------ bounds
\* Number of update_state requests issued in one behaviour.
MaxRequests == 2
\* Number of World calls made while the world is set up.
MaxCalls == 3
\* Length of the stack of a stack state.
MaxStack == 2

\* --------------------------------------------------------------- universe
Crates == {"bevy_state", "bevy_state_v3"}

\* Entities that own state records: "g" carries the GlobalMarker, "e1" is a
\* local state machine.
Entities == {"g", "e1"}

\* State types.  ManualState, ManualState2 and SubState are the types of
\* the crate's tests; LeafState is a manual State impl in the pattern of
\* tests::SubState2 whose Dependencies are (SubState, ManualState2).
StateTypes == {"ManualState", "ManualState2", "SubState", "LeafState"}

\* Option::None of an optional representation / of the update payload.
None == "None"
\* StateData::previous == Option::None (no previous value recorded).
NoPrev == "NoPrev"
\* Component not present on the entity / state type not registered.
Absent == [present |-> FALSE]
\* Result of unwrapping a None.
Panic == "Panic"
\* No call is on record.
NoCall == [op |-> "none"]

\* The record kept of an init_state / update_state call.
InitCall(local, S, initial, suppress_initial_update) ==
    [op |-> "init_state", local |-> local, state |-> S, value |-> initial,
     suppress_initial_update |-> suppress_initial_update]
RequestCall(local, S, value) ==
    [op |-> "update_state", local |-> local, state |-> S, value |-> value]

Variants(S) ==
    CASE S = "ManualState" -> {"A", "B"}
      [] S = "ManualState2" -> {"C", "D"}
      [] S = "SubState" -> {"X", "Y"}
      [] S = "LeafState" -> {"X", "Y"}

\* <S as Default>::default()
Default(S) ==
    CASE S = "ManualState" -> "A"
      [] S = "ManualState2" -> "C"
      [] S = "SubState" -> "X"
      [] S = "LeafState" -> "X"

\* State::Dependencies, as the tuple of member types.
Dependencies(S) ==
    CASE S = "ManualState" -> <<>>
      [] S = "ManualState2" -> <<>>
      [] S = "SubState" -> <<"ManualState">>
      [] S = "LeafState" -> <<"SubState", "ManualState2">>

DependencySet(S) == {Dependencies(S)[i] : i \in 1..Len(Dependencies(S))}

const_max_flipped(a, b) == IF a > b THEN b ELSE a

\* const_max (state_set.rs)
const_max(a, b) == IF a > b THEN a ELSE b

RECURSIVE ORDER(_)
RECURSIVE MaxOrder(_, _)
\* max!($($type::ORDER,)* 0), folded left to right with const_max.
MaxOrder(deps, i) ==
    IF i > Len(deps) THEN 0
    ELSE const_max(ORDER(deps[i]), MaxOrder(deps, i + 1))

HIGHEST_ORDER(deps) == MaxOrder(deps, 1)

ORDER(S) == HIGHEST_ORDER(Dependencies(S)) + 1


\* ------------------------------------------------------------- state data
VARIABLES
    crate,      \* which crate of the repository the behaviour runs
    data,       \* data[e][S]: the StateData<S> component of entity e, or Absent
    global,     \* entities carrying GlobalMarker
    registered, \* registered[S]: [systems: notification kinds installed,
                \* calls: register_state calls made for S], or Absent
    stage,      \* "startup" or "main": which schedule order is being run;
                \* "build" while the world is set up, "panicked" once a
                \* call has panicked
    pos,        \* index of the schedule being run in that order
    ran,        \* systems of the running schedule that have finished
    requests,   \* update_state calls issued so far (while the world is
                \* set up: World calls made so far)
    events,     \* notifications triggered so far by the running transition phase
    recomputed, \* records on which the most recent update pass invoked update
    woken,      \* records whose payload reported should_update when that pass began
    frameLog,   \* state systems that have run so far in the current frame
    call        \* the last update_state call made since the running
                \* schedule started (while the world is set up: the last
                \* World call)
VARIABLE
    scoped      \* values v for which an entity carrying
                \* StateScoped::<ManualState>(v) is alive

vars == <<crate, data, global, registered, stage, pos, ran, requests,
          events, recomputed, woken, frameLog, call, scoped>>

\* StateData<S> { is_reentrant, previous, current, update, is_updated }.
\* The update payload is called `waker` in crate bevy_state.
StateData(current, previous, is_reentrant, update, is_updated) ==
    [current |-> current, previous |-> previous, is_reentrant |-> is_reentrant,
     update |-> update, is_updated |-> is_updated]

new_updated(initial) == StateData(initial, NoPrev, FALSE, None, TRUE)

\* StateData::new of bevy_state_v3 (components.rs).
new(initial) == StateData(initial, NoPrev, FALSE, None, FALSE)

new_bevy_state_no_previous(initial, suppress_initial_update) ==
    StateData(initial, NoPrev, FALSE, None, ~suppress_initial_update)

\* StateData::new of bevy_state (data.rs).
new_bevy_state(initial, suppress_initial_update) ==
    StateData(initial, initial, TRUE, None, ~suppress_initial_update)

inner_update_never_reentrant(state, next) ==
    [state EXCEPT !.is_reentrant = FALSE,
                  !.previous = state.current,
                  !.current = next]

\* StateData::inner_update of bevy_state_v3 (components.rs).
inner_update(state, next) ==
    IF next = state.current
    THEN [state EXCEPT !.is_reentrant = TRUE]
    ELSE [state EXCEPT !.is_reentrant = FALSE,
                       !.previous = state.current,
                       !.current = next]

update_bevy_state_always_moves(state, next) ==
    [state EXCEPT !.is_reentrant = (next = state.current),
                  !.previous = state.current,
                  !.current = next,
                  !.is_updated = TRUE]

\* StateData::update of bevy_state (data.rs).
update_bevy_state(state, next) ==
    LET s == IF next = state.current
             THEN [state EXCEPT !.is_reentrant = TRUE]
             ELSE [state EXCEPT !.is_reentrant = FALSE,
                                !.previous = state.current,
                                !.current = next]
    IN [s EXCEPT !.is_updated = TRUE]

\* StateData::reentrant_previous.
reentrant_previous(state) ==
    IF state.is_reentrant THEN state.current ELSE state.previous

\* Option::unwrap; `nothing` is the encoding of Option::None at that place.
unwrap(x, nothing) == IF x = nothing THEN Panic ELSE x

\* <Option<S> as StateUpdate>::should_update.
should_update(update) == update # None

\* <Option<S> as StateUpdate>::post_update (reset in bevy_state).
post_update(update) == None

\* ------------------------------------------------------- update functions
\* Each returns the next representation together with the state as the
\* function left it (update functions take() the pending payload).
Updated(next, state) == [next |-> next, state |-> state]

\* derive_root_state: state.update_mut().take().unwrap()
update_root(state) ==
    Updated(unwrap(state.update, None), [state EXCEPT !.update = None])

\* derive_sub_state with #[dependency(ManualState = ManualState::B)].
update_SubState(state, manual) ==
    LET taken == state.update
        st == [state EXCEPT !.update = None]
    IN IF manual.current = "B"
       THEN IF taken = None THEN Updated(Default("SubState"), st)
            ELSE Updated(taken, st)
       ELSE Updated(None, st)

\* Manual impl after tests::SubState2::update, on (SubState, ManualState2).
update_LeafState(state, sub, manual2) ==
    LET taken == state.update
        st == [state EXCEPT !.update = None]
    IN IF sub.current = "Y" /\ manual2.current = "D"
       THEN IF taken = None THEN Updated("X", st) ELSE Updated(taken, st)
       ELSE Updated(None, st)

\* State::update, dispatched on the state type; deps is the tuple of the
\* dependency records of the same entity.
update(S, state, deps) ==
    CASE S = "ManualState" -> update_root(state)
      [] S = "ManualState2" -> update_root(state)
      [] S = "SubState" -> update_SubState(state, deps[1])
      [] S = "LeafState" -> update_LeafState(state, deps[1], deps[2])

is_updated_any_dependency(deps) == Len(deps) >= 1

is_updated_first_only(deps) == Len(deps) >= 1 /\ deps[1].is_updated

\* StateSet::is_updated / is_changed: $($var.is_updated ||)* false
is_updated(deps) == \E i \in 1..Len(deps) : deps[i].is_updated


\* -------------------------------------------------------------- schedules
\* MainScheduleOrder of bevy_app before any plugin is built (the labels
\* the plugins refer to, and the two in which user systems issue requests).
BaseStartupLabels == <<"PreStartup", "Startup">>
BaseLabels == <<"PreUpdate", "Update">>

\* Labels in which application systems run and may call update_state.
UserLabels == {"Startup", "Update"}

IndexOf(seq, x) == CHOOSE i \in 1..Len(seq) : seq[i] = x

InsertAt(seq, i, x) == SubSeq(seq, 1, i - 1) \o <<x>> \o SubSeq(seq, i, Len(seq))

\* MainScheduleOrder::insert_after: x goes right behind `after`.
insert_after(labels, after, x) == InsertAt(labels, IndexOf(labels, after) + 1, x)

\* MainScheduleOrder::insert_startup_before: x goes right in front of `before`.
insert_startup_before(labels, before, x) == InsertAt(labels, IndexOf(labels, before), x)

Order(startup, labels) == [startup |-> startup, labels |-> labels]

\* <StatePlugin as Plugin>::build of bevy_state_v3 (app.rs).
build ==
    Order(insert_startup_before(BaseStartupLabels, "PreStartup", "StateTransitions"),
          insert_after(insert_after(BaseLabels, "PreUpdate", "StateUpdates"),
                       "PreUpdate", "StateTransitions"))

\* <StatePlugin as Plugin>::build of bevy_state (plugin.rs).
build_bevy_state ==
    Order(insert_startup_before(BaseStartupLabels, "PreStartup", "StateTransition"),
          insert_after(BaseLabels, "PreUpdate", "StateTransition"))

ScheduleOrder == IF crate = "bevy_state_v3" THEN build ELSE build_bevy_state

StageLabels == IF stage = "startup" THEN ScheduleOrder.startup ELSE ScheduleOrder.labels

\* The schedule being run.
Label == StageLabels[pos]

\* ---------------------------------------------------------------- systems
NotificationKinds == {"exit", "enter", "reexit", "reenter"}
SystemKinds == {"update"} \cup NotificationKinds

\* StateConfig::default(): on_exit_transition and on_enter_transition.
StateConfig_default == {"exit", "enter"}
\* StateConfig::empty()
StateConfig_empty == {}

Registered == {S \in StateTypes : registered[S] # Absent}

\* Systems that register_state has added to the schedule `label`.
Systems(label) ==
    LET upd == {<<"update", S>> : S \in Registered}
        trn == UNION {{<<k, S>> : k \in registered[S].systems} : S \in Registered}
    IN CASE label = "StateUpdates" -> upd
         [] label = "StateTransitions" -> trn
         [] label = "StateTransition" -> upd \cup trn
         [] OTHER -> {}

\* despawn_state_scoped is added in_set(TransitionSystemSet::exit).
IsExit(s) == s[1] \in {"exit", "reexit", "despawn"}
IsEnter(s) == s[1] \in {"enter", "reenter"}
IsUpdate(s) == s[1] = "update"

\* Orders k whose set was configured `after`/`before` the set of k - 1,
\* which register_state does for every registered type of order k.
ConfiguredOrders == {ORDER(S) : S \in Registered}

\* A path of configured edges leads from the set of order lo to that of hi.
Chained(lo, hi) == lo < hi /\ \A k \in (lo + 1)..hi : k \in ConfiguredOrders

\* UpdateSystemSet::configuration: Update(ORDER).after(Update(ORDER - 1)).
\* TRUE when update system a must finish before update system b starts.
UpdateSystemSet_configuration(a, b) ==
    IsUpdate(a) /\ IsUpdate(b) /\ Chained(ORDER(a[2]), ORDER(b[2]))

TransitionSystemSet_configuration_unchained(a, b) ==
    \/ IsExit(a) /\ IsExit(b) /\ Chained(ORDER(b[2]), ORDER(a[2]))
    \/ IsEnter(a) /\ IsEnter(b) /\ Chained(ORDER(a[2]), ORDER(b[2]))

\* TransitionSystemSet::configuration: (AllExits, AllEnters).chain(),
\* Exit(ORDER).before(Exit(ORDER - 1)), Enter(ORDER).after(Enter(ORDER - 1)).
TransitionSystemSet_configuration(a, b) ==
    \/ IsExit(a) /\ IsEnter(b)
    \/ IsExit(a) /\ IsExit(b) /\ Chained(ORDER(b[2]), ORDER(a[2]))
    \/ IsEnter(a) /\ IsEnter(b) /\ Chained(ORDER(a[2]), ORDER(b[2]))

\* StateSystemSet::configuration of bevy_state (scheduling.rs):
\* (AllUpdates, AllExits, AllEnters).chain() and the three per-order edges.
StateSystemSet_configuration(a, b) ==
    \/ IsUpdate(a) /\ (IsExit(b) \/ IsEnter(b))
    \/ IsExit(a) /\ IsEnter(b)
    \/ IsUpdate(a) /\ IsUpdate(b) /\ Chained(ORDER(a[2]), ORDER(b[2]))
    \/ IsExit(a) /\ IsExit(b) /\ Chained(ORDER(b[2]), ORDER(a[2]))
    \/ IsEnter(a) /\ IsEnter(b) /\ Chained(ORDER(a[2]), ORDER(b[2]))

\* System a is ordered before system b in the schedule both belong to.
Before(a, b) ==
    IF crate = "bevy_state_v3"
    THEN UpdateSystemSet_configuration(a, b) \/ TransitionSystemSet_configuration(a, b)
    ELSE StateSystemSet_configuration(a, b)

\* The executor may start system s now.
Ready(s) ==
    /\ s \in Systems(Label)
    /\ s \notin ran
    /\ \A a \in Systems(Label) : Before(a, s) => a \in ran


\* ------------------------------------------------------------ update pass
\* Entity e is matched by Populated<(&mut StateData<S>, Dependencies::Query)>.
InQuery(e, S) ==
    /\ data[e][S] # Absent
    /\ \A D \in DependencySet(S) : data[e][D] # Absent

DependencyData_any_context(e, S) ==
    [i \in 1..Len(Dependencies(S)) |->
        LET D == Dependencies(S)[i]
        IN IF data["e1"][D] # Absent THEN data["e1"][D] ELSE data[e][D]]

\* The dependency records of S on entity e, in declaration order.
DependencyData(e, S) == [i \in 1..Len(Dependencies(S)) |-> data[e][Dependencies(S)[i]]]

\* The commit primitive of the running crate.
Commit(state, next) ==
    IF crate = "bevy_state_v3" THEN inner_update(state, next)
    ELSE update_bevy_state(state, next)

Outcome(state, invoked) == [state |-> state, invoked |-> invoked]

update_state_data_system_request_kept(S, e) ==
    LET state == [data[e][S] EXCEPT !.is_updated = FALSE]
        dependencies == DependencyData(e, S)
    IN IF is_updated(dependencies) \/ should_update(state.update)
       THEN LET r == update(S, state, dependencies)
                committed == Commit(r.state, r.next)
            IN Outcome([committed EXCEPT !.update = state.update], TRUE)
       ELSE Outcome(state, FALSE)

update_state_data_system_flag_kept(S, e) ==
    LET state == data[e][S]
        dependencies == DependencyData(e, S)
        dependency_updated == is_updated(dependencies)
        state_should_update == should_update(state.update)
    IN IF dependency_updated \/ state_should_update
       THEN LET r == update(S, state, dependencies)
                committed == Commit(r.state, r.next)
            IN Outcome([committed EXCEPT !.update = post_update(committed.update)], TRUE)
       ELSE Outcome(state, FALSE)

\* Body of the loop of State::update_state_data_system for one entity:
\* the record it leaves and whether State::update was invoked.
update_state_data_system(S, e) ==
    LET state == [data[e][S] EXCEPT !.is_updated = FALSE]
        dependencies == DependencyData(e, S)
        dependency_updated == is_updated(dependencies)
        state_should_update == should_update(state.update)
    IN IF dependency_updated \/ state_should_update
       THEN LET r == update(S, state, dependencies)
                committed == Commit(r.state, r.next)
            IN Outcome([committed EXCEPT !.update = post_update(committed.update)], TRUE)
       ELSE Outcome(state, FALSE)

\* The update system of state type S runs over every matching entity.
UpdateStateData(S) ==
    /\ Ready(<<"update", S>>)
    /\ data' = [e \in Entities |-> [T \in StateTypes |->
                   IF T = S /\ InQuery(e, S)
                   THEN update_state_data_system(S, e).state
                   ELSE data[e][T]]]
    /\ recomputed' = recomputed \cup
           {<<e, S>> : e \in {x \in Entities :
                                 InQuery(x, S) /\ update_state_data_system(S, x).invoked}}
    /\ ran' = ran \cup {<<"update", S>>}
    /\ frameLog' = frameLog \cup {<<"update", S>>}
    /\ UNCHANGED <<scoped, crate, global, registered, stage, pos, requests, events,
                   woken, call>>

\* ------------------------------------------------------- transition phase
\* trigger_targets(On..::new(previous, current), target)
Notification(kind, S, target, previous, current) ==
    [kind |-> kind, state |-> S, target |-> target, previous |-> previous,
     current |-> current]

Target_entity(e) == e

\* is_global.then_some(Entity::PLACEHOLDER).unwrap_or(entity)
Target(e) == IF e \in global THEN "PLACEHOLDER" ELSE e

on_exit_transition_not_updated_too(kind, S, e) ==
    LET state == data[e][S]
    IN IF state.is_reentrant THEN <<>>
       ELSE <<Notification(kind, S, Target(e), unwrap(state.previous, NoPrev),
                           state.current)>>

on_exit_transition_reentrant_too(kind, S, e) ==
    LET state == data[e][S]
    IN IF ~state.is_updated THEN <<>>
       ELSE <<Notification(kind, S, Target(e), unwrap(state.previous, NoPrev),
                           state.current)>>

on_exit_transition_swapped(kind, S, e) ==
    LET state == data[e][S]
    IN IF ~state.is_updated \/ state.is_reentrant THEN <<>>
       ELSE <<Notification(kind, S, Target(e), state.current,
                           unwrap(state.previous, NoPrev))>>

\* on_exit_transition / on_enter_transition of both crates, for one entity:
\* the notifications it triggers.  StateData::previous is an Option in
\* bevy_state_v3 and a plain value in bevy_state.
on_exit_transition(kind, S, e) ==
    LET state == data[e][S]
    IN IF ~state.is_updated \/ state.is_reentrant THEN <<>>
       ELSE <<Notification(kind, S, Target(e), unwrap(state.previous, NoPrev),
                           state.current)>>

\* on_reexit_transition / on_reenter_transition of bevy_state_v3.
on_reexit_transition(kind, S, e) ==
    LET state == data[e][S]
    IN IF ~state.is_updated THEN <<>>
       ELSE <<Notification(kind, S, Target(e),
                           unwrap(reentrant_previous(state), NoPrev), state.current)>>

\* on_reexit_transition / on_reenter_transition of bevy_state.
on_reexit_transition_bevy_state(kind, S, e) ==
    LET state == data[e][S]
    IN IF ~state.is_updated \/ state.is_reentrant THEN <<>>
       ELSE <<Notification(kind, S, Target(e), state.previous, state.current)>>

\* What the system <<kind, S>> triggers for entity e.
Triggered(kind, S, e) ==
    IF data[e][S] = Absent THEN <<>>
    ELSE IF kind \in {"exit", "enter"} THEN on_exit_transition(kind, S, e)
    ELSE IF crate = "bevy_state_v3" THEN on_reexit_transition(kind, S, e)
    ELSE on_reexit_transition_bevy_state(kind, S, e)

\* Iteration orders of a query over the entities.
EntityOrders == {<<"g", "e1">>, <<"e1", "g">>}

\* A transition system of state type S runs over every entity holding
\* StateData<S>; its commands are applied before any system ordered after it.
Transition(kind, S) ==
    /\ kind \in NotificationKinds
    /\ Ready(<<kind, S>>)
    /\ \E ord \in EntityOrders :
          /\ Len(Triggered(kind, S, "g")) + Len(Triggered(kind, S, "e1")) < 2
                => ord = <<"g", "e1">>
          /\ events' = events \o Triggered(kind, S, ord[1]) \o Triggered(kind, S, ord[2])
    /\ ran' = ran \cup {<<kind, S>>}
    /\ frameLog' = frameLog \cup {<<kind, S>>}
    /\ UNCHANGED <<scoped, crate, data, global, registered, stage, pos, requests,
                   recomputed, woken, call>>

\* ----------------------------------------------------------------- driver
HasUpdates(label) == label \in {"StateUpdates", "StateTransition"}
HasTransitions(label) == label \in {"StateTransitions", "StateTransition"}

\* The running schedule has finished; the runner starts the next one of
\* the order, the main order after the startup order, frame after frame.
Woken == {r \in Entities \X StateTypes :
              data[r[1]][r[2]] # Absent /\ should_update(data[r[1]][r[2]].update)}

Advance ==
    /\ ran = Systems(Label)
    /\ LET last == pos = Len(StageLabels)
           nlabel == IF last THEN ScheduleOrder.labels[1] ELSE StageLabels[pos + 1]
       IN /\ stage' = IF last THEN "main" ELSE stage
          /\ pos' = IF last THEN 1 ELSE pos + 1
          /\ frameLog' = IF last THEN {} ELSE frameLog
          /\ recomputed' = IF HasUpdates(nlabel) THEN {} ELSE recomputed
          /\ woken' = IF HasUpdates(nlabel) THEN Woken ELSE woken
    /\ ran' = {}
    /\ events' = <<>>
    /\ call' = NoCall
    /\ UNCHANGED <<scoped, crate, data, global, registered, requests>>

\* target_entity (commands.rs): the entity a command addresses, or None.
target_entity(local) ==
    IF local # None THEN local
    ELSE IF Cardinality(global) = 1 THEN CHOOSE e \in global : TRUE
    ELSE None

WakeStateTargetCommand_apply_at_once(local, S, value) ==
    LET entity == target_entity(local)
    IN IF entity = None THEN data
       ELSE IF data[entity][S] = Absent THEN data
       ELSE [data EXCEPT ![entity][S] = Commit(data[entity][S], value)]

WakeStateTargetCommand_apply_or_insert(local, S, value) ==
    LET entity == target_entity(local)
    IN IF entity = None THEN data
       ELSE IF data[entity][S] = Absent
       THEN [data EXCEPT ![entity][S] = [new(value) EXCEPT !.update = value]]
       ELSE [data EXCEPT ![entity][S].update = value]

WakeStateTargetCommand_apply_keep_first(local, S, value) ==
    LET entity == target_entity(local)
    IN IF entity = None THEN data
       ELSE IF data[entity][S] = Absent THEN data
       ELSE IF data[entity][S].update # None THEN data
       ELSE [data EXCEPT ![entity][S].update = value]

\* WakeStateTargetCommand::apply (commands.rs): the data it leaves.
WakeStateTargetCommand_apply(local, S, value) ==
    LET entity == target_entity(local)
    IN IF entity = None THEN data
       ELSE IF data[entity][S] = Absent THEN data
       ELSE [data EXCEPT ![entity][S].update = value]

\* StatesExt::update_state(local, update), called by an application system.
update_state(local, S, value) ==
    /\ Label \in UserLabels
    /\ requests < MaxRequests
    /\ requests' = requests + 1
    /\ data' = WakeStateTargetCommand_apply(local, S, value)
    /\ call' = RequestCall(local, S, value)
    /\ UNCHANGED <<scoped, crate, global, registered, stage, pos, ran, events,
                   recomputed, woken, frameLog>>

\* ----------------------------------------------------------- registration
Unregistered == [S \in StateTypes |-> Absent]

\* State::register_state of bevy_state_v3 (state.rs): a type that is
\* already registered is left alone, otherwise its update system and the
\* systems of `config` are added.  Dependencies are not touched.
register_state(reg, S, config) ==
    IF reg[S] # Absent THEN [reg EXCEPT ![S].calls = @ + 1]
    ELSE [reg EXCEPT ![S] = [systems |-> config, calls |-> 1]]

RECURSIVE register_state_bevy_state(_, _, _)
RECURSIVE register_required_states(_, _, _)
\* StateSet::register_required_states: register_state(world,
\* StateConfig::default(), true) for every member from position i on.
register_required_states(reg, deps, i) ==
    IF i > Len(deps) THEN reg
    ELSE register_required_states(
             register_state_bevy_state(reg, deps[i], StateConfig_default), deps, i + 1)

\* State::register_state of bevy_state (state.rs): the dependencies are
\* registered first, then the type itself unless it already is.
register_state_bevy_state(reg, S, config) ==
    LET cascaded == register_required_states(reg, Dependencies(S), 1)
    IN IF cascaded[S] # Absent THEN [cascaded EXCEPT ![S].calls = @ + 1]
       ELSE [cascaded EXCEPT ![S] = [systems |-> config, calls |-> 1]]

\* The register_state calls an app makes while it is built, in order.
\* The first app registers every type itself, as the crate's tests do
\* (LeafState with the empty config), and then ManualState and LeafState a
\* second time with another config; the second registers LeafState and one
\* of its dependencies only.
Apps == {
    << <<"ManualState", NotificationKinds>>, <<"ManualState2", StateConfig_default>>,
       <<"SubState", StateConfig_default>>, <<"LeafState", StateConfig_empty>>,
       <<"ManualState", StateConfig_empty>>, <<"LeafState", NotificationKinds>> >>,
    << <<"ManualState2", StateConfig_default>>, <<"LeafState", StateConfig_default>> >> }

RECURSIVE Registration(_, _, _, _)
\* The registry after the calls app[i..] are applied to reg.
Registration(c, reg, app, i) ==
    IF i > Len(app) THEN reg
    ELSE Registration(c,
             IF c = "bevy_state_v3" THEN register_state(reg, app[i][1], app[i][2])
             ELSE register_state_bevy_state(reg, app[i][1], app[i][2]),
             app, i + 1)

\* ------------------------------------------------------------------- init
\* The world after the app is built: the plugin is added, the app's
\* register_state calls are made, the global entity holds all four states
\* and the local entity e1 holds ManualState (init_state calls).
InitialValue(S) ==
    CASE S = "ManualState" -> "A"
      [] S = "ManualState2" -> "C"
      [] S = "SubState" -> None
      [] S = "LeafState" -> None

Holds(e, S) == e = "g" \/ S = "ManualState"

\* The values the init_state calls of an app may pass: those of the crate's
\* tests, or ManualState::B with Some(SubState::Y) on the global entity.
InitialValues == {
    [e \in Entities |-> [S \in StateTypes |-> InitialValue(S)]],
    [e \in Entities |-> [S \in StateTypes |->
        IF e = "g" /\ S = "ManualState" THEN "B"
        ELSE IF e = "g" /\ S = "SubState" THEN "Y"
        ELSE InitialValue(S)]] }

Init ==
    /\ crate \in Crates
    /\ \E suppress_initial_update \in BOOLEAN, initial \in InitialValues :
          /\ crate = "bevy_state_v3" => suppress_initial_update
          /\ data = [e \in Entities |-> [S \in StateTypes |->
                 IF ~Holds(e, S) THEN Absent
                 ELSE IF crate = "bevy_state_v3" THEN new(initial[e][S])
                 ELSE new_bevy_state(initial[e][S], suppress_initial_update)]]
    /\ global = {"g"}
    /\ \E app \in Apps : registered = Registration(crate, Unregistered, app, 1)
    /\ stage = "startup"
    /\ pos = 1
    /\ ran = {}
    /\ requests = 0
    /\ events = <<>>
    /\ recomputed = {}
    /\ woken = {}
    /\ frameLog = {}
    /\ call = NoCall
    /\ scoped = {}

Next ==
    \/ \E S \in StateTypes : UpdateStateData(S)
    \/ \E kind \in NotificationKinds, S \in StateTypes : Transition(kind, S)
    \/ Advance
    \/ \E local \in {None, "e1"}, S \in StateTypes, value \in {"A", "B", "C", "D", "X", "Y"} :
          value \in Variants(S) /\ update_state(local, S, value)

Spec == Init /\ [][Next]_vars


\* ================================================================= claims
UpdateSystems == {<<"update", S>> : S \in Registered}

\* Every update system of the running schedule has finished.
UpdatePassDone == HasUpdates(Label) /\ UpdateSystems \subseteq ran

\* Every system of the running transition phase has finished.
TransitionPhaseDone == HasTransitions(Label) /\ ran = Systems(Label)

Records == {r \in Entities \X StateTypes : data[r[1]][r[2]] # Absent}

RECURSIVE TransitiveDependencies(_)
TransitiveDependencies(S) ==
    DependencySet(S) \cup
    UNION {TransitiveDependencies(D) : D \in DependencySet(S)}

\* The entity a notification is about.
Owner(ev) == IF ev.target = "PLACEHOLDER" THEN CHOOSE e \in global : TRUE ELSE ev.target

\* Positions of the notifications of `kind` for record r triggered so far.
Emitted(kind, r) ==
    {i \in 1..Len(events) : events[i].kind = kind /\ events[i].state = r[2]
                            /\ Owner(events[i]) = r[1]}

\* C1: in an update pass a record is recomputed (its update function is
\* invoked and the result committed) if and only if, at that moment, its
\* pending update reports should-update or at least one of its dependency
\* records on the same entity has is_updated = true (OR over a tuple).
C1_RecomputedIffWokenOrDependencyUpdated ==
    [][\A S \in StateTypes :
         (<<"update", S>> \notin ran /\ <<"update", S>> \in ran') =>
            \A e \in Entities : InQuery(e, S) =>
               ((<<e, S>> \in recomputed') <=>
                  (\/ data[e][S].update # None
                   \/ \E D \in DependencySet(S) : data[e][D].is_updated))]_vars

\* A LeafState record was recomputed without a request of its own, on the
\* strength of the second member of its dependency tuple alone.
C1_Witness ==
    /\ UpdatePassDone
    /\ <<"g", "LeafState">> \in recomputed
    /\ <<"g", "LeafState">> \notin woken
    /\ data["g"]["ManualState2"].is_updated
    /\ ~data["g"]["SubState"].is_updated

\* C2: committing a recomputed value next: if next equals current, current
\* and previous stay and is_reentrant becomes true; otherwise previous
\* becomes the old current, current becomes next, is_reentrant false.
C2_CommitMovesOrMarksReentrant ==
    [][\A r \in Records :
         (r \in recomputed' /\ r \notin recomputed) =>
            LET old == data[r[1]][r[2]]
                now == data'[r[1]][r[2]]
                next == update(r[2], old, DependencyData(r[1], r[2])).next
            IN IF next = old.current
               THEN /\ now.current = old.current
                    /\ now.previous = old.previous
                    /\ now.is_reentrant
               ELSE /\ now.previous = old.current
                    /\ now.current = next
                    /\ ~now.is_reentrant]_vars

\* One pass has committed a reentrant value to one record and a different
\* value to another.
C2_Witness ==
    /\ UpdatePassDone
    /\ \E r \in recomputed : data[r[1]][r[2]].is_reentrant
    /\ \E r \in recomputed :
          /\ ~data[r[1]][r[2]].is_reentrant
          /\ data[r[1]][r[2]].previous \notin {NoPrev, data[r[1]][r[2]].current}

\* C3: after an update pass a record's is_updated flag is true exactly when
\* the record was recomputed in that pass, whether or not its value
\* changed; a record that had a pending request ends with is_updated.
C3_UpdatedIffRecomputed ==
    UpdatePassDone =>
        \A r \in Records : r[2] \in Registered =>
            (data[r[1]][r[2]].is_updated <=> r \in recomputed)

\* C4: with LeafState depending on SubState depending on ManualState on the
\* global entity, one update pass in which only ManualState has a pending
\* request leaves all three with is_updated = true.
C4_ChainPropagatesInOnePass ==
    (/\ UpdatePassDone
     /\ {"ManualState", "SubState", "LeafState"} \subseteq Registered
     /\ {S \in {"ManualState", "SubState", "LeafState"} : <<"g", S>> \in woken}
            = {"ManualState"})
    => \A S \in {"ManualState", "SubState", "LeafState"} : data["g"][S].is_updated

\* C5: when the update function of a state runs, the update system of
\* every state it depends on, directly or transitively and whatever the
\* difference of their orders, has already finished in that pass.
C5_DependenciesUpdateFirst ==
    \A S \in Registered :
        <<"update", S>> \in ran =>
            \A D \in TransitiveDependencies(S) \cap Registered : <<"update", D>> \in ran

\* C6: in a transition phase, for two dependency-related states that both
\* changed, the Exit of the dependent is emitted before the Exit of its
\* dependency and the Enter of the dependency before the Enter of the
\* dependent.
C6_ExitLeafFirstEnterRootFirst ==
    TransitionPhaseDone =>
        \A e \in Entities, S \in Registered :
            \A D \in TransitiveDependencies(S) \cap Registered :
                (/\ {<<e, S>>, <<e, D>>} \subseteq recomputed
                 /\ ~data[e][S].is_reentrant /\ ~data[e][D].is_reentrant
                 /\ {"exit", "enter"} \subseteq (registered[S].systems \cap registered[D].systems))
                => /\ \E i \in Emitted("exit", <<e, S>>), j \in Emitted("exit", <<e, D>>) : i < j
                   /\ \E i \in Emitted("enter", <<e, D>>), j \in Emitted("enter", <<e, S>>) : i < j

\* C7: in every transition phase all Exit/Reexit notifications of all
\* state types are emitted before any Enter/Reenter notification: no enter
\* system starts before every exit system has finished, and no exit
\* notification follows an enter notification.
C7_AllExitsBeforeAnyEnter ==
    /\ (\E s \in ran : IsEnter(s)) => \A s \in Systems(Label) : IsExit(s) => s \in ran
    /\ \A i, j \in 1..Len(events) :
          (events[i].kind \in {"enter", "reenter"} /\ events[j].kind \in {"exit", "reexit"})
          => j < i

\* Exit and Enter notifications of two state types have been emitted.
C7_Witness ==
    /\ TransitionPhaseDone
    /\ \E i, j, k, l \in 1..Len(events) :
          /\ events[i].kind = "exit" /\ events[j].kind = "reexit"
          /\ events[k].kind = "enter" /\ events[l].kind = "reenter"
          /\ events[i].state # events[k].state

\* C8: in each frame of the main schedule order the update phase runs
\* before the transition phase: once a transition system has run in a
\* frame, every update system has already run in that frame.
C8_UpdatesBeforeTransitionsInFrame ==
    (stage = "main" /\ \E s \in frameLog : ~IsUpdate(s))
    => UpdateSystems \subseteq frameLog

\* C9: a recomputation that yields a value equal to the current one never
\* produces an Exit or an Enter notification for that record.
C9_NoExitEnterWhenReentrant ==
    \A i \in 1..Len(events) :
        events[i].kind \in {"exit", "enter"} =>
            ~data[Owner(events[i])][events[i].state].is_reentrant

\* A transition phase with Exit and Enter installed has run to its end
\* after a pass that recomputed ManualState to the value it already had.
C9_Witness ==
    /\ TransitionPhaseDone
    /\ <<"g", "ManualState">> \in recomputed
    /\ data["g"]["ManualState"].is_reentrant
    /\ data["g"]["ManualState"].is_updated
    /\ {<<"exit", "ManualState">>, <<"enter", "ManualState">>} \subseteq ran

\* C10: with Reexit/Reenter installed for a state, every recomputation of
\* a record, reentrant or not, produces one Reexit and one Reenter
\* notification in the transition phase that follows it.
C10_ReexitReenterForEveryRecomputation ==
    TransitionPhaseDone =>
        \A r \in recomputed :
            {"reexit", "reenter"} \subseteq registered[r[2]].systems =>
                /\ Cardinality(Emitted("reexit", r)) = 1
                /\ Cardinality(Emitted("reenter", r)) = 1

\* C11: no notification of any kind is emitted in a transition phase for a
\* record that was not recomputed in the preceding update pass, whatever
\* other records of the same or of another entity were recomputed.
C11_NoNotificationWithoutRecomputation ==
    \A i \in 1..Len(events) :
        <<Owner(events[i]), events[i].state>> \in recomputed

\* A transition phase has emitted for the global ManualState while the
\* ManualState of e1 and the ManualState2 of the global entity, both with
\* their transition systems run, were not recomputed.
C11_Witness ==
    /\ TransitionPhaseDone
    /\ Emitted("exit", <<"g", "ManualState">>) # {}
    /\ Emitted("reenter", <<"g", "ManualState">>) # {}
    /\ <<"e1", "ManualState">> \notin recomputed
    /\ <<"g", "ManualState2">> \notin recomputed
    /\ <<"exit", "ManualState2">> \in ran
    /\ ~data["e1"]["ManualState"].is_reentrant

\* C12: if no record has a pending request when an update pass begins, the
\* pass leaves current, previous and is_reentrant of every record unchanged
\* and is_updated of every record false, and the transition phase that
\* follows emits no notification.
C12_IdlePassChangesNothing ==
    /\ [][(woken = {} /\ HasUpdates(Label) /\ ran' # ran) =>
             \A r \in Records :
                /\ data'[r[1]][r[2]].current = data[r[1]][r[2]].current
                /\ data'[r[1]][r[2]].previous = data[r[1]][r[2]].previous
                /\ data'[r[1]][r[2]].is_reentrant = data[r[1]][r[2]].is_reentrant]_vars
    /\ []((woken = {} /\ UpdatePassDone) =>
             \A r \in Records : ~data[r[1]][r[2]].is_updated)
    /\ []((woken = {} /\ HasTransitions(Label)) => events = <<>>)

\* A pass without requests and the transition phase after it have run over
\* a record that an earlier pass had changed.
C12_Witness ==
    /\ TransitionPhaseDone
    /\ woken = {}
    /\ \E r \in Records :
          /\ ~data[r[1]][r[2]].is_reentrant
          /\ data[r[1]][r[2]].previous \notin {NoPrev, data[r[1]][r[2]].current}
          /\ <<"exit", r[2]>> \in ran
          /\ <<"update", r[2]>> \in frameLog

\* C13: for the derived substate SubState with dependency ManualState = B,
\* after every update pass in which ManualState or SubState was recomputed,
\* SubState.current is Some(_) if and only if ManualState.current is B.
C13_SubStateExistsIffParentEnables ==
    (UpdatePassDone /\ {"ManualState", "SubState"} \subseteq Registered) =>
        \A e \in Entities :
            (/\ InQuery(e, "SubState")
             /\ {<<e, "ManualState">>, <<e, "SubState">>} \cap recomputed # {})
            => (data[e]["SubState"].current # None
                    <=> data[e]["ManualState"].current = "B")

\* The record r and the records r depends on, directly or transitively.
UpstreamOf(r) == {<<r[1], D>> : D \in {r[2]} \cup TransitiveDependencies(r[2])}

\* C14: a request addressed to a state recomputes only that state and its
\* transitive dependents: a record that was not requested and none of whose
\* transitive dependencies was requested is not recomputed, keeps current
\* and previous through the pass and ends it with is_updated = false, while
\* the requested record itself is recomputed.
C14_RequestLeavesDependenciesAlone ==
    /\ [][(HasUpdates(Label) /\ ran' # ran) =>
             \A r \in Records : UpstreamOf(r) \cap woken = {} =>
                /\ data'[r[1]][r[2]].current = data[r[1]][r[2]].current
                /\ data'[r[1]][r[2]].previous = data[r[1]][r[2]].previous]_vars
    /\ [](UpdatePassDone =>
             \A r \in Records :
                /\ UpstreamOf(r) \cap woken = {} =>
                       r \notin recomputed /\ ~data[r[1]][r[2]].is_updated
                /\ (r \in woken /\ r[2] \in Registered /\ InQuery(r[1], r[2]))
                       => r \in recomputed)

\* A pass with a request for SubState alone has made it Y while ManualState,
\* which it depends on, stayed B and was not recomputed.
C14_Witness ==
    /\ UpdatePassDone
    /\ woken = {<<"g", "SubState">>}
    /\ <<"g", "SubState">> \in recomputed
    /\ data["g"]["SubState"].current = "Y"
    /\ data["g"]["ManualState"].current = "B"
    /\ <<"g", "ManualState">> \notin recomputed
    /\ ~data["g"]["ManualState"].is_updated

\* C15: when the parent ManualState of the derived substate SubState is
\* recomputed but remains in the enabling value B (a reentrant request on
\* the parent) and SubState has no pending request of its own, the update
\* system of SubState leaves SubState.current as it was.
C15_SubStateCarriedForward ==
    [][\A e \in Entities :
         (/\ <<"update", "SubState">> \notin ran
          /\ <<"update", "SubState">> \in ran'
          /\ InQuery(e, "SubState")
          /\ <<e, "ManualState">> \in recomputed
          /\ data[e]["ManualState"].current = "B"
          /\ data[e]["ManualState"].is_reentrant
          /\ <<e, "SubState">> \notin woken)
         => data'[e]["SubState"].current = data[e]["SubState"].current]_vars

\* C16: a request for SubState made while ManualState is not B is consumed
\* by the next update pass without effect (SubState stays None, nothing
\* stays pending), and a pass in which ManualState enters B without a
\* request for SubState leaves SubState at its default value.
C16_DisabledRequestIsLost ==
    (UpdatePassDone /\ {"ManualState", "SubState"} \subseteq Registered) =>
        \A e \in Entities : InQuery(e, "SubState") =>
            /\ (<<e, "SubState">> \in woken /\ data[e]["ManualState"].current # "B")
                   => /\ data[e]["SubState"].current = None
                      /\ data[e]["SubState"].update = None
            /\ (/\ <<e, "ManualState">> \in recomputed
                 /\ data[e]["ManualState"].current = "B"
                 /\ ~data[e]["ManualState"].is_reentrant
                 /\ <<e, "SubState">> \notin woken)
                   => data[e]["SubState"].current = Default("SubState")

\* Records whose update system is installed and matches them.
Served == {r \in Records : r[2] \in Registered /\ InQuery(r[1], r[2])}

\* C17: a request is consumed by the update pass that applies it: after an
\* update pass no recomputed record (indeed no record the pass serves) has
\* a pending request left, and a pass that starts without a request for
\* any record it serves recomputes nothing and leaves every is_updated
\* false.
C17_RequestConsumedByItsPass ==
    UpdatePassDone =>
        /\ \A r \in recomputed \cup Served : ~should_update(data[r[1]][r[2]].update)
        /\ (woken \cap Served = {}) =>
               /\ recomputed = {}
               /\ \A r \in Records : ~data[r[1]][r[2]].is_updated

\* A second pass without new requests has ended after a pass that applied
\* one: the changed record is still changed and nothing was recomputed.
C17_Witness ==
    /\ UpdatePassDone
    /\ requests > 0
    /\ woken = {}
    /\ recomputed = {}
    /\ data["g"]["ManualState2"].current = "D"
    /\ data["g"]["ManualState2"].previous = "C"
    /\ ~data["g"]["ManualState2"].is_updated

\* The fields of a record other than its pending payload.
Settled(d) == IF d = Absent THEN d ELSE [d EXCEPT !.update = None]

\* C18: issuing a request changes only the pending payload of the target
\* record: current, previous, is_reentrant and is_updated of every record
\* stay as they are in every step that is not a step of an update system,
\* and a request step touches the payload of at most one record.
C18_RequestOnlySetsPayload ==
    [][/\ ~(HasUpdates(Label) /\ ran' # ran) =>
             \A e \in Entities, S \in StateTypes : Settled(data'[e][S]) = Settled(data[e][S])
       /\ requests' # requests =>
             Cardinality({r \in Entities \X StateTypes :
                             data'[r[1]][r[2]] # data[r[1]][r[2]]}) <= 1]_vars

\* A request for ManualState::B is pending on the global entity, whose
\* record still shows A and is not marked updated.
C18_Witness ==
    /\ Label \in UserLabels
    /\ data["g"]["ManualState"].update = "B"
    /\ data["g"]["ManualState"].current = "A"
    /\ ~data["g"]["ManualState"].is_updated
    /\ data["e1"]["ManualState"].update = None

\* C19: registering the same state type twice installs its update step and
\* its notification steps only once: for a type registered more than once,
\* a pass with a pending request recomputes the record, and when the value
\* changed the transition phase emits each notification enabled by the
\* first registration exactly once.
C19_DoubleRegistrationInstallsOnce ==
    TransitionPhaseDone =>
        \A r \in Served :
            (/\ registered[r[2]].calls > 1
             /\ r \in woken)
            => /\ r \in recomputed
               /\ ~data[r[1]][r[2]].is_reentrant =>
                      \A k \in registered[r[2]].systems :
                          Cardinality(Emitted(k, r)) = 1

\* C20: registering a state type also registers every state type of its
\* transitive dependency set: the update system of each dependency of a
\* registered type is installed and has run when an update pass ends.
C20_RegistrationCascades ==
    \A S \in Registered : \A D \in TransitiveDependencies(S) :
        /\ D \in Registered
        /\ UpdatePassDone => <<"update", D>> \in ran


\* The greatest member of a non-empty finite set of numbers.
Greatest(ns) == CHOOSE m \in ns : \A n \in ns : m >= n

\* C25: the order of every state type (registered, or held by a context) is 1 + the maximum order of its
\* dependencies (0 for none), hence strictly greater than the order of each
\* of its direct and transitive dependencies.
C25_OrderIsOneAboveDependencies ==
    \A S \in Registered \cup {r[2] : r \in Records} :
       /\ ORDER(S) = 1 + Greatest({ORDER(D) : D \in DependencySet(S)} \cup {0})
       /\ \A D \in TransitiveDependencies(S) : ORDER(S) > ORDER(D)

\* The update system of LeafState, whose dependencies have orders 2 and 1,
\* has run in set 3 of an app that registered it.
C25_Witness ==
    /\ <<"update", "LeafState">> \in ran
    /\ ORDER("SubState") = 2 /\ ORDER("ManualState2") = 1
    /\ ORDER("LeafState") = 3


C27_GlobalUntargetedLocalTargeted ==
    /\ \A i \in 1..Len(events) :
          LET ev == events[i]
              owners == IF ev.target = "PLACEHOLDER" THEN global
                        ELSE {ev.target} \ global
          IN \E e \in owners :
                /\ data[e][ev.state] # Absent
                /\ data[e][ev.state].is_updated
                /\ data[e][ev.state].current = ev.current
    /\ \A i, j \in 1..Len(events) :
          (/\ events[i].kind = events[j].kind
           /\ events[i].state = events[j].state
           /\ events[i].target = events[j].target) => i = j

\* ManualState changed on the global context and on e1 in the same pass:
\* one Exit is untargeted, the other is targeted at e1.
C27_Witness ==
    /\ \E i \in 1..Len(events) :
          /\ events[i].kind = "exit" /\ events[i].state = "ManualState"
          /\ events[i].target = "PLACEHOLDER"
    /\ \E i \in 1..Len(events) :
          /\ events[i].kind = "exit" /\ events[i].state = "ManualState"
          /\ events[i].target = "e1"


\* The app registered LeafState more than once (the first of Apps).
RegisteredTwice == registered["LeafState"] # Absent /\ registered["LeafState"].calls > 1

\* The config given when S was registered first: in the first app all
\* kinds for ManualState and none for LeafState, the default otherwise
\* (also for the dependencies bevy_state registers by itself).
FirstConfig(S) ==
    IF RegisteredTwice /\ S = "ManualState" THEN NotificationKinds
    ELSE IF RegisteredTwice /\ S = "LeafState" THEN StateConfig_empty
    ELSE StateConfig_default

\* C28: a notification kind is raised for a state type only if the config
\* given when the type was registered first enabled it: none with the empty
\* config; with the default config Exit and Enter are raised (for a record
\* recomputed to a different value) but Reexit and Reenter are not; the
\* config of a later duplicate registration is ignored.
C28_OnlyConfiguredKinds ==
    /\ \A S \in Registered : registered[S].systems = FirstConfig(S)
    /\ \A i \in 1..Len(events) : events[i].kind \in FirstConfig(events[i].state)
    /\ TransitionPhaseDone =>
          \A r \in recomputed :
             (/\ r[2] \in Registered
              /\ FirstConfig(r[2]) = StateConfig_default
              /\ ~data[r[1]][r[2]].is_reentrant)
             => \A k \in StateConfig_default : Emitted(k, r) # {}

\* No record of context e has a pending request or is marked updated.
Quiet(e) ==
    \A S \in StateTypes :
       data[e][S] # Absent => data[e][S].update = None /\ ~data[e][S].is_updated

\* C29: a dependent record is triggered by and computed from the
\* dependency records of its own context only: a request changes records
\* of one context, and while one context is recomputed or notified, a
\* context without a pending request or an updated record of its own is
\* not changed, not recomputed and raises no notification.
C29_ContextsAreIsolated ==
    [][IF requests' # requests
       THEN \E e \in Entities : \A x \in Entities \ {e} : data'[x] = data[x]
       ELSE \A e \in Entities :
               Quiet(e) =>
                  /\ data'[e] = data[e]
                  /\ \A S \in StateTypes :
                        <<e, S>> \in recomputed' => <<e, S>> \in recomputed
                  /\ \A i \in (Len(events) + 1)..Len(events') :
                        Owner(events'[i]) # e]_vars

\* After a request for the global ManualState the pass recomputed it and,
\* through it, the global SubState, while e1's ManualState with the same
\* initial value was not recomputed and stays A.
C29_Witness ==
    /\ UpdatePassDone
    /\ <<"g", "ManualState">> \in recomputed
    /\ <<"g", "SubState">> \in recomputed \ woken
    /\ data["g"]["ManualState"].current = "B"
    /\ data["g"]["ManualState"].previous = "A"
    /\ <<"e1", "ManualState">> \notin recomputed
    /\ data["e1"]["ManualState"].current = "A"
    /\ Quiet("e1")


\* C31: a record that has made a real (non-reentrant) transition has a
\* defined previous value that differs from its current value: a step that
\* changes current stores the old current as previous, and every other
\* step (reentrant recomputation, pass without recomputation, request,
\* notification) leaves previous as it is.
C31_PreviousIsLastDifferentValue ==
    /\ [](\A r \in Records :
             LET state == data[r[1]][r[2]]
             IN /\ state.previous # Panic
                /\ state.previous = state.current => state.is_reentrant)
    /\ [][\A r \in Records :
             LET old == data[r[1]][r[2]]
                 state == data'[r[1]][r[2]]
             IN IF state.current # old.current
                THEN state.previous = old.current /\ ~state.is_reentrant
                ELSE state.previous = old.previous]_vars

\* The global ManualState went A -> B and was then recomputed to B again:
\* the reentrant recomputation kept previous = A.
C31_Witness ==
    /\ UpdatePassDone
    /\ <<"g", "ManualState">> \in recomputed
    /\ data["g"]["ManualState"].is_reentrant
    /\ data["g"]["ManualState"].current = "B"
    /\ data["g"]["ManualState"].previous = "A"

C36_UpdateOrderIsImmaterial ==
    [][\A S, T \in StateTypes :
          (/\ S # T
           /\ Ready(<<"update", S>>) /\ Ready(<<"update", T>>)
           /\ <<"update", S>> \in ran')
          => \A e \in Entities :
                InQuery(e, T) =>
                   update_state_data_system(T, e)' = update_state_data_system(T, e)]_vars


\* C38: each recomputation of a record is observed by exactly one
\* transition phase: when a transition phase ends, every notification
\* kind installed for the record's type has been raised once if the record
\* was recomputed by the update pass before it (Exit/Enter only for a
\* change of value) and not at all otherwise.
C38_RecomputationObservedOnce ==
    TransitionPhaseDone =>
       \A r \in Records :
          r[2] \in Registered =>
             \A k \in registered[r[2]].systems :
                Cardinality(Emitted(k, r)) =
                   IF /\ r \in recomputed
                      /\ (k \in {"reexit", "reenter"} \/ ~data[r[1]][r[2]].is_reentrant)
                   THEN 1 ELSE 0


\* C32: a record initialised before startup has its initial-state Enter
\* notification raised by the phase run at startup, before the first
\* regular tick: when the startup transition phase ends, every record
\* whose type has the Enter system installed has raised Enter.
C32_InitialEnterAtStartup ==
    (stage = "startup" /\ TransitionPhaseDone) =>
       \A r \in Records :
          (r[2] \in Registered /\ "enter" \in registered[r[2]].systems)
          => Emitted("enter", r) # {}


\* ============================================================ world set-up
\* The calls an application makes on the World before the schedules run:
\* World::init_state and World::update_state (commands.rs), applied at once.

\* <S::Repr as Default>::default(): Option::None for an optional state.
ReprDefault(S) == IF S \in {"SubState", "LeafState"} THEN None ELSE Default(S)

\* The values the set-up calls are given for S: update_state the variant
\* that is not the default, init_state that one or the default of S::Repr.
Requested(S) == Variants(S) \ {Default(S)}
Initials(S) == {ReprDefault(S)} \cup Requested(S)

\* world.spawn(GlobalMarker).id()
SpawnedGlobal == "g"

\* The required components of StateData<S> (the records of the members of
\* S::Dependencies, registered by StateSet::register_required_components)
\* that entity lacks in d.
MissingRequired(d, entity, S) ==
    {D \in DependencySet(S) : d[entity][D] = Absent}

Applied(d, marked, panicked) == [data |-> d, global |-> marked, panicked |-> panicked]

\* Result of a call that panicked.
Panicked(d, marked) == Applied(d, marked, TRUE)

\* missing_state (bevy_state_v3 state_set.rs): the constructor registered
\* for every required dependency component.
missing_state(d, marked) == Panicked(d, marked)

\* entity.insert(StateData<S>) in bevy_state_v3: a required component that
\* is missing is constructed with missing_state.
insert(d, marked, entity, S, state) ==
    IF MissingRequired(d, entity, S) # {} THEN missing_state(d, marked)
    ELSE Applied([d EXCEPT ![entity][S] = state], marked, FALSE)

\* entity.insert(StateData<S>) in bevy_state: a required component that is
\* missing is constructed with StateData::default.
insert_bevy_state(d, marked, entity, S, state) ==
    Applied([d EXCEPT ![entity] = [T \in StateTypes |->
                IF T = S THEN state
                ELSE IF T \in MissingRequired(d, entity, S)
                THEN new_bevy_state(ReprDefault(T), FALSE)
                ELSE d[entity][T]]],
            marked, FALSE)

InitializeStateCommand_apply_overwrite(local, S, initial, suppress_initial_update) ==
    IF local = None /\ Cardinality(global) > 1 THEN Applied(data, global, FALSE)
    ELSE LET spawn == local = None /\ global = {}
             entity == IF local # None THEN local
                       ELSE IF spawn THEN SpawnedGlobal
                       ELSE CHOOSE e \in global : TRUE
             marked == IF spawn THEN {entity} ELSE global
         IN IF crate = "bevy_state_v3"
            THEN insert(data, marked, entity, S, new(initial))
            ELSE insert_bevy_state(data, marked, entity, S,
                                   new_bevy_state(initial, suppress_initial_update))

InitializeStateCommand_apply_any_marker(local, S, initial, suppress_initial_update) ==
    LET spawn == local = None /\ global = {}
        entity == IF local # None THEN local
                  ELSE IF spawn THEN SpawnedGlobal
                  ELSE CHOOSE e \in global : TRUE
        marked == IF spawn THEN {entity} ELSE global
    IN IF data[entity][S] # Absent THEN Applied(data, marked, FALSE)
       ELSE IF crate = "bevy_state_v3"
       THEN insert(data, marked, entity, S, new(initial))
       ELSE insert_bevy_state(data, marked, entity, S,
                              new_bevy_state(initial, suppress_initial_update))

\* InitializeStateCommand::apply (commands.rs): the data and the global
\* markers it leaves, and whether it panicked.
InitializeStateCommand_apply(local, S, initial, suppress_initial_update) ==
    IF local = None /\ Cardinality(global) > 1 THEN Applied(data, global, FALSE)
    ELSE LET spawn == local = None /\ global = {}
             entity == IF local # None THEN local
                       ELSE IF spawn THEN SpawnedGlobal
                       ELSE CHOOSE e \in global : TRUE
             marked == IF spawn THEN {entity} ELSE global
         IN IF data[entity][S] # Absent THEN Applied(data, marked, FALSE)
            ELSE IF crate = "bevy_state_v3"
            THEN insert(data, marked, entity, S, new(initial))
            ELSE insert_bevy_state(data, marked, entity, S,
                                   new_bevy_state(initial, suppress_initial_update))


\* World::init_state(local, initial, suppress_initial_update).
World_init_state(local, S, initial, suppress_initial_update) ==
    /\ stage = "build"
    /\ requests < MaxCalls
    /\ requests' = requests + 1
    /\ LET r == InitializeStateCommand_apply(local, S, initial, suppress_initial_update)
       IN /\ data' = r.data
          /\ global' = r.global
          /\ stage' = IF r.panicked THEN "panicked" ELSE stage
    /\ call' = InitCall(local, S, initial, suppress_initial_update)
    /\ UNCHANGED <<scoped, crate, registered, pos, ran, events, recomputed, woken,
                   frameLog>>

\* World::update_state(local, update).
World_update_state(local, S, value) ==
    /\ stage = "build"
    /\ requests < MaxCalls
    /\ requests' = requests + 1
    /\ data' = WakeStateTargetCommand_apply(local, S, value)
    /\ call' = RequestCall(local, S, value)
    /\ UNCHANGED <<scoped, crate, global, registered, stage, pos, ran, events,
                   recomputed, woken, frameLog>>

\* A new World; the application may have put GlobalMarker on its own
\* entity e1, or on two entities.
InitBuild ==
    /\ crate \in Crates
    /\ data = [e \in Entities |-> [S \in StateTypes |-> Absent]]
    /\ global \in {{}, {"e1"}, Entities}
    /\ registered = Unregistered
    /\ stage = "build"
    /\ pos = 1
    /\ ran = {}
    /\ requests = 0
    /\ events = <<>>
    /\ recomputed = {}
    /\ woken = {}
    /\ frameLog = {}
    /\ call = NoCall
    /\ scoped = {}

NextBuild ==
    \/ \E local \in {None, "e1"}, S \in StateTypes,
          initial \in {"A", "B", "C", "D", "X", "Y", None},
          suppress_initial_update \in BOOLEAN :
          /\ initial \in Initials(S)
          /\ crate = "bevy_state_v3" => suppress_initial_update
          /\ World_init_state(local, S, initial, suppress_initial_update)
    \/ \E local \in {None, "e1"}, S \in StateTypes, value \in {"A", "B", "C", "D", "X", "Y"} :
          value \in Requested(S) /\ World_update_state(local, S, value)

SpecBuild == InitBuild /\ [][NextBuild]_vars

\* ------------------------------------------------------ claims on set-up
\* The step is a World::init_state call.
IsInit == requests' = requests + 1 /\ call'.op = "init_state"

\* The step is a World::update_state call.
IsRequest == requests' = requests + 1 /\ call'.op = "update_state"

\* The context a call with this `local` argument is about: the local
\* entity, or the global context when exactly one exists.
Addressed(local) ==
    IF local # None THEN {local}
    ELSE IF Cardinality(global) = 1 THEN global
    ELSE {}

\* C21: initializing a state on a context that already holds a record of
\* that type is a no-op: the record's current, previous, flags and pending
\* payload (and everything else in the world) stay as they were.
C21_InitOfExistingRecordIsNoOp ==
    [][IsInit =>
         ((\E e \in Addressed(call'.local) : data[e][call'.state] # Absent) =>
            /\ data' = data
            /\ global' = global
            /\ stage' = stage)]_vars

\* ManualState on e1 was initialized with B, requested to change, and then
\* initialized again with A: the record still reads B with its request.
C21_Witness ==
    /\ call.op = "init_state"
    /\ call.local = "e1" /\ call.state = "ManualState" /\ call.value = "A"
    /\ data["e1"]["ManualState"] # Absent
    /\ data["e1"]["ManualState"].current = "B"
    /\ data["e1"]["ManualState"].update = "B"

\* C22: a global init_state creates the global context when there is none
\* (so a sequence of them starting without one creates exactly one, on the
\* first call) and attaches its record to the one global context, touching
\* no other entity; with more than one global context it changes nothing;
\* no other call creates or removes a global context.
C22_OneGlobalContext ==
    [][/\ (IsInit /\ call'.local = None) =>
            IF Cardinality(global) > 1
            THEN data' = data /\ global' = global /\ stage' = stage
            ELSE /\ Cardinality(global') = 1
                 /\ global # {} => global' = global
                 /\ \A e \in Entities \ global' : data'[e] = data[e]
                 /\ stage' = "build" =>
                       \A e \in global' : data'[e][call'.state] # Absent
       /\ ~(IsInit /\ call'.local = None) => global' = global]_vars

\* Two global init_state calls in a world that had no global context: one
\* context was spawned and holds both records, e1 holds none.
C22_Witness ==
    /\ global = {"g"}
    /\ requests = 2
    /\ call.op = "init_state" /\ call.local = None
    /\ data["g"]["ManualState"] # Absent
    /\ data["g"]["ManualState2"] # Absent
    /\ \A S \in StateTypes : data["e1"][S] = Absent

\* C23: an update_state request issued globally when no global context or
\* several exist, or for a context that has no record of the requested
\* type, changes no record and creates no context and no record.
C23_UnaddressedRequestIsNoOp ==
    [][IsRequest =>
         ((\A e \in Addressed(call'.local) : data[e][call'.state] = Absent) =>
            /\ data' = data
            /\ global' = global
            /\ stage' = stage)]_vars

\* A global request for ManualState was issued while two entities carried
\* GlobalMarker, one of them holding a ManualState record: nothing pending.
C23_Witness ==
    /\ global = Entities
    /\ call = RequestCall(None, "ManualState", "B")
    /\ data["e1"]["ManualState"] # Absent
    /\ data["e1"]["ManualState"].update = None
    /\ data["g"]["ManualState"] = Absent

\* The entities on which an init_state call with this `local` argument
\* attaches its record when they do not hold one.
Attaching(local) ==
    IF local = None /\ global = {} THEN {SpawnedGlobal} ELSE Addressed(local)

\* C24: attaching a record of a dependent state to a context that has no
\* record of one of its dependencies is a fatal error, and the missing
\* dependency record is not created with a default value.
C24_MissingDependencyIsFatal ==
    [][IsInit =>
         \A e \in Attaching(call'.local) :
            (/\ data[e][call'.state] = Absent
             /\ \E D \in DependencySet(call'.state) : data[e][D] = Absent) =>
               /\ stage' = "panicked"
               /\ \A D \in DependencySet(call'.state) : data'[e][D] = data[e][D]]_vars

\* The entities on which the init_state call of this step created the
\* record of the state type it names.
Created == {e \in Entities : data[e][call'.state] = Absent
                             /\ data'[e][call'.state] # Absent}

\* C30 as stated: a newly created record has current = previous = the
\* initial value and is_updated = false.
C30_NewRecordAsStated ==
    [][IsInit =>
         \A e \in Created :
            LET state == data'[e][call'.state]
            IN /\ state.current = call'.value
               /\ state.previous = call'.value
               /\ ~state.is_updated]_vars

\* C30: a newly created record has current = the initial value and no
\* pending payload; in bevy_state_v3 it has no previous value, is not
\* reentrant and is_updated = false; in bevy_state previous = the initial
\* value, it is reentrant and is_updated = !suppress_initial_update.
C30_NewRecord ==
    [][IsInit =>
         \A e \in Created :
            LET state == data'[e][call'.state]
            IN /\ state.current = call'.value
               /\ state.update = None
               /\ IF crate = "bevy_state_v3"
                  THEN /\ state.previous = NoPrev
                       /\ ~state.is_reentrant
                       /\ ~state.is_updated
                  ELSE /\ state.previous = call'.value
                       /\ state.is_reentrant
                       /\ state.is_updated = ~call'.suppress_initial_update]_vars

\* The first call of a world created ManualState on e1 with initial value B.
C30_Witness ==
    /\ requests = 1
    /\ call.op = "init_state" /\ call.local = "e1"
    /\ call.state = "ManualState" /\ call.value = "B"
    /\ data["e1"]["ManualState"] # Absent
    /\ data["e1"]["ManualState"].current = "B"

\* C37: of several requests issued for the same record before an update
\* pass only the last one is applied: a request replaces the pending
\* payload of the record it addresses, whatever that payload was, and
\* changes nothing else; the update system then recomputes the record
\* once, from the payload it finds (for a root state: current becomes that
\* value), and clears it.
C37_LastRequestWins ==
    [][/\ (requests' # requests /\ call'.op = "update_state") =>
            \A r \in Records :
               data'[r[1]][r[2]] =
                  IF r[1] \in Addressed(call'.local) /\ r[2] = call'.state
                  THEN [data[r[1]][r[2]] EXCEPT !.update = call'.value]
                  ELSE data[r[1]][r[2]]
       /\ \A S \in {"ManualState", "ManualState2"}, e \in Entities :
             (/\ <<"update", S>> \notin ran /\ <<"update", S>> \in ran'
              /\ InQuery(e, S)
              /\ data[e][S].update # None)
             => /\ data'[e][S].current = data[e][S].update
                /\ data'[e][S].update = None
                /\ <<e, S>> \in recomputed']_vars

\* The second request of a Startup schedule asked for ManualState A on the
\* global context; A is the only payload pending and current is still A,
\* so a first request for B on the same record has been replaced.
C37_Witness ==
    /\ stage = "startup" /\ Label = "Startup"
    /\ requests = 2
    /\ call = RequestCall(None, "ManualState", "A")
    /\ data["g"]["ManualState"].update = "A"
    /\ data["g"]["ManualState"].current = "A"
    /\ \A r \in Records : r # <<"g", "ManualState">> => data[r[1]][r[2]].update = None

\* =================================================== state scoped entities
\* An app of bevy_state_v3 whose global ManualState is registered with
\* StateConfig::default() (despawn_state_scoped, on_enter, on_exit) and
\* whose systems spawn entities carrying StateScoped::<ManualState>(v).
StateConfig_default_v3 == StateConfig_default \cup {"despawn"}

\* despawn_state_scoped (state_scoped.rs): the scoped values whose entity
\* is alive after the system ran.  Global<..> is a Single: the system is
\* skipped unless exactly one entity carries GlobalMarker and the record.
despawn_state_scoped(S) ==
    IF Cardinality(global) # 1 THEN scoped
    ELSE LET state == data[CHOOSE e \in global : TRUE][S]
         IN IF state = Absent THEN scoped
            ELSE IF state.previous = NoPrev THEN scoped
            ELSE scoped \ {state.previous}

\* The despawn system of state type S runs in the exit set of S.
DespawnStateScoped(S) ==
    /\ Ready(<<"despawn", S>>)
    /\ scoped' = despawn_state_scoped(S)
    /\ ran' = ran \cup {<<"despawn", S>>}
    /\ frameLog' = frameLog \cup {<<"despawn", S>>}
    /\ UNCHANGED <<crate, data, global, registered, stage, pos, requests, events,
                   recomputed, woken, call>>

\* An application system spawns an entity with StateScoped(v).
spawn_scoped(v) ==
    /\ Label \in UserLabels
    /\ v \notin scoped
    /\ scoped' = scoped \cup {v}
    /\ UNCHANGED <<crate, data, global, registered, stage, pos, ran, requests,
                   events, recomputed, woken, frameLog, call>>

\* The world of tests::state_scoped_entities, with or without the entity
\* scoped to ManualState::A spawned before the app runs.
InitScoped ==
    /\ crate = "bevy_state_v3"
    /\ data = [e \in Entities |-> [S \in StateTypes |->
                  IF e = "g" /\ S = "ManualState" THEN new("A") ELSE Absent]]
    /\ global = {"g"}
    /\ registered = register_state(Unregistered, "ManualState", StateConfig_default_v3)
    /\ stage = "startup"
    /\ pos = 1
    /\ ran = {}
    /\ requests = 0
    /\ events = <<>>
    /\ recomputed = {}
    /\ woken = {}
    /\ frameLog = {}
    /\ call = NoCall
    /\ scoped \in {{}, {"A"}}

NextScoped ==
    \/ UpdateStateData("ManualState")
    \/ \E kind \in StateConfig_default : Transition(kind, "ManualState")
    \/ DespawnStateScoped("ManualState")
    \/ Advance
    \/ \E value \in Variants("ManualState") : update_state(None, "ManualState", value)
    \/ \E v \in Variants("ManualState") : spawn_scoped(v)

SpecScoped == InitScoped /\ [][NextScoped]_vars

\* The state of the global context whose value scopes entities.
Scoping == data["g"]["ManualState"]

\* C33: with scoped despawning enabled for a global state, an entity marked
\* StateScoped(v) is despawned by the transition phase of the tick in which
\* the state exits v: when the update pass of a tick moves the state away
\* from v while such an entity is alive, the despawn system of that tick
\* has not run yet.
C33_DespawnedInTickOfExit ==
    [][(/\ <<"update", "ManualState">> \notin ran
        /\ <<"update", "ManualState">> \in ran'
        /\ Scoping'.current # Scoping.current
        /\ Scoping.current \in scoped)
       => <<"despawn", "ManualState">> \notin frameLog]_vars

\* C39: an entity marked StateScoped(v) is not despawned by a transition
\* phase unless the state exited v in the preceding update pass (a
\* recomputation that changed the value from v): not after a pass without
\* recomputation, not after a reentrant one, and not when v is a previous
\* value left over from an earlier tick.
C39_DespawnOnlyOnExit ==
    [][\A v \in scoped \ scoped' :
          /\ <<"g", "ManualState">> \in recomputed
          /\ ~Scoping.is_reentrant
          /\ Scoping.previous = v]_vars

\* ============================================================ stack state
\* examples/state_stack.rs: a global root state MyState with Repr =
\* Option<MyState> whose update payload is a stack with a pending operation.
MyStateVariants == {"Alice", "Had", "A", "Little", "Lamb"}

StackUpdate(stack, op) == [stack |-> stack, op |-> op]

\* StackOp::Push(value) / StackOp::Pop
Push(value) == [kind |-> "Push", value |-> value]
Pop == [kind |-> "Pop"]
\* Option<StackOp<S>>::None
NoOp == [kind |-> "None"]

\* <StackUpdate<S> as Default>::default()
StackUpdate_default == StackUpdate(<<>>, NoOp)

\* <StackUpdate<S> as StateUpdate>::should_update
StackUpdate_should_update(waker) == waker.op # NoOp

\* <StackUpdate<S> as StateUpdate>::post_update
StackUpdate_post_update(waker) == [waker EXCEPT !.op = NoOp]

\* Vec::pop: the last element (None when empty) and the rest.
Vec_pop(stack) ==
    IF stack = <<>> THEN [value |-> None, stack |-> stack]
    ELSE [value |-> stack[Len(stack)], stack |-> SubSeq(stack, 1, Len(stack) - 1)]

\* <StateData<S> as StackUpdateData<S>>::update
StackUpdateData_update(state) ==
    LET op == state.update.op
        taken == [state EXCEPT !.update.op = NoOp]
    IN IF op = NoOp THEN Updated(Panic, taken)
       ELSE IF op.kind = "Push"
       THEN Updated(op.value,
                    IF state.current # None
                    THEN [taken EXCEPT !.update.stack = Append(@, state.current)]
                    ELSE taken)
       ELSE LET popped == Vec_pop(state.update.stack)
            IN Updated(popped.value, [taken EXCEPT !.update.stack = popped.stack])

\* State::update_state_data_system for MyState (no dependencies).
update_state_data_system_MyState(record) ==
    LET state == [record EXCEPT !.is_updated = FALSE]
    IN IF StackUpdate_should_update(state.update)
       THEN LET r == StackUpdateData_update(state)
                committed == Commit(r.state, r.next)
            IN [committed EXCEPT !.update = StackUpdate_post_update(committed.update)]
       ELSE state

\* StackOpCommand::apply: the pending operation is replaced.
StackOpCommand_apply(op) ==
    [data EXCEPT !["g"]["MyState"].update.op = op]

StackIdle ==
    UNCHANGED <<crate, global, registered, stage, pos, ran, requests, events,
                recomputed, woken, frameLog, call, scoped>>

\* StackStateExt::push_state(None, value)
push_state(value) ==
    /\ Len(data["g"]["MyState"].update.stack) < MaxStack
    /\ data' = StackOpCommand_apply(Push(value))
    /\ StackIdle

\* StackStateExt::pop_state(None)
pop_state ==
    /\ data' = StackOpCommand_apply(Pop)
    /\ StackIdle

\* The StateUpdates schedule runs the update system of MyState.
StackUpdatePass ==
    /\ data' = [data EXCEPT !["g"]["MyState"] = update_state_data_system_MyState(@)]
    /\ StackIdle

\* init_state(None, None::<MyState>)
InitStack ==
    /\ crate = "bevy_state_v3"
    /\ data = [e \in {"g"} |-> [S \in {"MyState"} |->
                  [new(None) EXCEPT !.update = StackUpdate_default]]]
    /\ global = {"g"}
    /\ registered = Unregistered
    /\ stage = "main"
    /\ pos = 1
    /\ ran = {}
    /\ requests = 0
    /\ events = <<>>
    /\ recomputed = {}
    /\ woken = {}
    /\ frameLog = {}
    /\ call = NoCall
    /\ scoped = {}

NextStack ==
    \/ \E value \in MyStateVariants : push_state(value)
    \/ pop_state
    \/ StackUpdatePass

SpecStack == InitStack /\ [][NextStack]_vars

\* C34: popping a stack state when no more states are left on the stack
\* repeats the current state: the pass that applies the Pop leaves current
\* unchanged and marks the recomputation reentrant.
C34_PopOfEmptyStackRepeats ==
    [][LET old == data["g"]["MyState"]
           state == data'["g"]["MyState"]
       IN (/\ old.update.op = Pop
           /\ state.update.op = NoOp
           /\ old.update.stack = <<>>)
          => state.current = old.current /\ state.is_reentrant]_vars

\* ===================================================== persistent substate
\* examples/persistent_substate.rs: the global root LogoState and its
\* substate CycleColorState (Repr = Option<CycleColorState>), whose update
\* payload keeps the last requested value.
LogoStateVariants == {"Enabled", "Disabled"}
CycleColorStateVariants == {"Enabled", "Disabled"}

PersistentUpdate(flag, value) == [should_update |-> flag, value |-> value]

\* #[derive(Default)] on PersistentUpdate<S>: no request, S::default().
PersistentUpdate_default == PersistentUpdate(FALSE, "Enabled")

\* <PersistentUpdate<S> as StateUpdate>::should_update
PersistentUpdate_should_update(waker) == waker.should_update

\* <PersistentUpdate<S> as StateUpdate>::post_update
PersistentUpdate_post_update(waker) == [waker EXCEPT !.should_update = FALSE]

\* <PersistentUpdate<S> as From<S>>::from
PersistentUpdate_from(value) == PersistentUpdate(TRUE, value)

\* <CycleColorState as State>::update
update_CycleColorState(state, logo) ==
    IF logo.current = "Enabled" THEN Updated(state.update.value, state)
    ELSE Updated(None, state)

\* StateData::new of the running crate, with the payload of the state type.
new_with(initial, waker) ==
    [(IF crate = "bevy_state_v3" THEN new(initial)
      ELSE new_bevy_state(initial, FALSE)) EXCEPT !.update = waker]

\* State::update_state_data_system for LogoState.
update_state_data_system_LogoState(record) ==
    LET state == [record EXCEPT !.is_updated = FALSE]
    IN IF should_update(state.update)
       THEN LET r == update_root(state)
                committed == Commit(r.state, r.next)
            IN [committed EXCEPT !.update = post_update(committed.update)]
       ELSE state

\* State::update_state_data_system for CycleColorState, given the record of
\* its dependency.
update_state_data_system_CycleColorState(record, logo) ==
    LET state == [record EXCEPT !.is_updated = FALSE]
    IN IF is_updated(<<logo>>) \/ PersistentUpdate_should_update(state.update)
       THEN LET r == update_CycleColorState(state, logo)
                committed == Commit(r.state, r.next)
            IN [committed EXCEPT
                   !.update = PersistentUpdate_post_update(committed.update)]
       ELSE state

PersistIdle ==
    UNCHANGED <<crate, global, registered, stage, pos, ran, events,
                recomputed, woken, frameLog, call, scoped>>

\* toggle_logo, Digit1: commands.update_state(None, next) for LogoState.
update_state_LogoState(value) ==
    /\ data' = [data EXCEPT !["g"]["LogoState"].update = value]
    /\ UNCHANGED requests
    /\ PersistIdle

\* toggle_logo, Digit2: commands.update_state(None, value) for
\* CycleColorState.  requests counts the requests made for the substate
\* since the pass that disabled it.
update_state_CycleColorState(value) ==
    /\ requests < MaxRequests
    /\ data' = [data EXCEPT
                   !["g"]["CycleColorState"].update = PersistentUpdate_from(value)]
    /\ requests' = requests + 1
    /\ PersistIdle

\* The StateUpdates schedule: LogoState (order 0) before CycleColorState.
PersistUpdatePass ==
    LET logo == update_state_data_system_LogoState(data["g"]["LogoState"])
        old == data["g"]["CycleColorState"]
        cycle == update_state_data_system_CycleColorState(old, logo)
    IN /\ data' = [data EXCEPT !["g"] =
                      [S \in {"LogoState", "CycleColorState"} |->
                          IF S = "LogoState" THEN logo ELSE cycle]]
       /\ requests' = IF /\ old.current # None
                         /\ cycle.current = None
                         /\ ~PersistentUpdate_should_update(old.update)
                      THEN 0 ELSE requests
       /\ PersistIdle

\* init_state(None, LogoState::Enabled); init_state(None, Some(initial)).
InitPersist ==
    /\ crate \in Crates
    /\ \E initial \in CycleColorStateVariants :
          data = [e \in {"g"} |-> [S \in {"LogoState", "CycleColorState"} |->
                     IF S = "LogoState" THEN new_with("Enabled", None)
                     ELSE new_with(initial, PersistentUpdate_default)]]
    /\ global = {"g"}
    /\ registered = Unregistered
    /\ stage = "main"
    /\ pos = 1
    /\ ran = {}
    /\ requests = 0
    /\ events = <<>>
    /\ recomputed = {}
    /\ woken = {}
    /\ frameLog = {}
    /\ call = NoCall
    /\ scoped = {}

NextPersist ==
    \/ \E value \in LogoStateVariants : update_state_LogoState(value)
    \/ \E value \in CycleColorStateVariants : update_state_CycleColorState(value)
    \/ PersistUpdatePass

SpecPersist == InitPersist /\ [][NextPersist]_vars

====
